---- MODULE Spec2Model ----
(***************************************************************************)
(* Model of scripts/build_peeringdb_dump.py: one run of main() fetches the *)
(* twelve PeeringDB snapshots, upserts them into the objects table of      *)
(* peeringdb_dump.db, commits, and writes the full dump, the schema file,  *)
(* the per-resource chunk files and the filtered dump.                     *)
(*                                                                         *)
(* Text is modelled as a sequence of tokens.  A token is either one        *)
(* character that matters to the program ("'", ",", newline, space ...) or *)
(* a run of characters none of which does (a keyword, a resource name, a   *)
(* number).                                                                *)
(***************************************************************************)
EXTENDS Integers, Sequences, FiniteSets, TLC

VARIABLES pc, status, res, data, fetched, tx, db, files, written, dropped

vars == <<pc, status, res, data, fetched, tx, db, files, written, dropped>>

\* ------------------------------------------------------------------ bounds
\* object ids served by the CDN are 1..MaxId
MaxId == 1
\* a snapshot's data array has at most MaxData elements
MaxData == 2
\* only the first NumPopulated resources of the list have a non-empty snapshot
NumPopulated == 2

\* ---------------------------------------------------------------- constants
RESOURCES ==
  << "org", "campus", "fac", "net", "ix", "carrier",
     "carrierfac", "ixfac", "ixlan", "ixpfx", "netfac", "netixlan" >>

\* a path is the tuple of its components
SQL_PATH == <<"peeringdb_dump.sql">>
D1_SQL_PATH == <<"peeringdb_dump_d1.sql">>
D1_DIR == "d1_sql"
SCHEMA_PATH == <<D1_DIR, "00_schema.sql">>

\* d1_sql/<res>.sql
ChunkPath(name) == <<D1_DIR, name>>

ResourceNames == {RESOURCES[n] : n \in 1..Len(RESOURCES)}

Artifacts ==
  {SQL_PATH, SCHEMA_PATH, D1_SQL_PATH} \cup {ChunkPath(n) : n \in ResourceNames}

\* --------------------------------------------------------- values and text
NL == "\n"
SP == " "
QUOTE == "'"

\* Python / JSON / SQL values
None == [t |-> "null"]
Missing == [t |-> "missing"]
IntVal(n) == [t |-> "int", v |-> n]
TextVal(s) == [t |-> "text", v |-> s]

\* the updated strings the CDN may serve: one that holds a single quote and
\* spans three lines, the middle one blank and the last starting with COMMIT
UpdatedTexts == { <<QUOTE, NL, NL, "COMMIT">> }

\* the objects of a data array: id is an integer or the key is absent;
\* updated is a string, JSON null, or the key is absent
Elements ==
  [ id : {Missing} \cup {IntVal(n) : n \in 1..MaxId},
    updated : {Missing, None} \cup {TextVal(s) : s \in UpdatedTexts} ]

SeqsUpTo(S, n) == UNION {[1..m -> S] : m \in 0..n}

DataSet == SeqsUpTo(Elements, MaxData)

\* the snapshots the CDN can serve for the n-th resource
DataFor(n) == IF n <= NumPopulated THEN DataSet ELSE {<< >>}

RECURSIVE Concat(_)
Concat(ss) == IF ss = << >> THEN << >> ELSE Head(ss) \o Concat(Tail(ss))

Range(s) == {s[n] : n \in 1..Len(s)}

\* dict.get(key) and dict.get(key, default)
Get(obj, key) == IF obj[key] = Missing THEN None ELSE obj[key]
GetDefault(obj, key, default) == IF obj[key] = Missing THEN default ELSE obj[key]

\* json.dumps escapes control characters inside a string; a single quote is
\* written as it is
JsonEscapeTok(c) == IF c = NL THEN "\\n" ELSE c
JsonEscape(s) == [n \in 1..Len(s) |-> JsonEscapeTok(s[n])]

JsonValue(v) ==
  IF v = None THEN <<"null">>
  ELSE IF v.t = "int" THEN <<ToString(v.v)>>
  ELSE <<"\"">> \o JsonEscape(v.v) \o <<"\"">>

\* json.dumps(obj, separators=(",", ":"))
Dumps(obj) ==
  LET idPart == IF obj.id = Missing THEN << >>
                ELSE << <<"\"id\":">> \o JsonValue(obj.id) >>
      updPart == IF obj.updated = Missing THEN << >>
                 ELSE << <<"\"updated\":">> \o JsonValue(obj.updated) >>
      parts == idPart \o updPart
      joined == IF Len(parts) = 2 THEN parts[1] \o <<",">> \o parts[2]
                ELSE Concat(parts)
  IN <<"{">> \o joined \o <<"}">>

\* the row built from one element of the data array
RowOf(name, obj) ==
  [ resource |-> name,
    obj_id |-> Get(obj, "id"),
    updated |-> GetDefault(obj, "updated", TextVal(<< >>)),
    payload |-> Dumps(obj) ]

Rows(name, d) == [n \in 1..Len(d) |-> RowOf(name, d[n])]

\* ------------------------------------------------------------- the table
\* A table is the sequence of its rows in rowid order.
SameKey(r, s) == r.resource = s.resource /\ r.obj_id = s.obj_id

\* a check of obj_id alone
NotNullIdOnly(row) == row.obj_id # None

\* the NOT NULL constraints of the columns
NotNullOK(row) == row.obj_id # None /\ row.updated # None

\* an insert into a table without the primary key: the old row stays
InsertNoReplace(table, row) ==
  IF ~NotNullOK(row)
    THEN [ok |-> FALSE, table |-> table]
    ELSE [ok |-> TRUE, table |-> Append(table, row)]

\* INSERT OR IGNORE: on a primary key conflict the old row stays and the new
\* one is dropped
InsertOrIgnore(table, row) ==
  IF ~NotNullOK(row)
    THEN [ok |-> FALSE, table |-> table]
    ELSE [ok |-> TRUE,
          table |-> IF \E r \in Range(table) : SameKey(r, row)
                      THEN table ELSE Append(table, row)]

\* a plain INSERT: a primary key conflict aborts the statement
InsertPlain(table, row) ==
  IF ~NotNullOK(row) \/ \E r \in Range(table) : SameKey(r, row)
    THEN [ok |-> FALSE, table |-> table]
    ELSE [ok |-> TRUE, table |-> Append(table, row)]

\* INSERT OR REPLACE of one row: a NOT NULL violation aborts the statement,
\* a primary key conflict deletes the old row before the new one is added
InsertOrReplace(table, row) ==
  IF ~NotNullOK(row)
    THEN [ok |-> FALSE, table |-> table]
    ELSE [ok |-> TRUE,
          table |-> Append(SelectSeq(table, LAMBDA r : ~SameKey(r, row)), row)]

\* cursor.executemany: the statement once per row, stopping at the first error
RECURSIVE ExecuteMany(_, _)
ExecuteMany(table, rows) ==
  IF rows = << >> THEN [ok |-> TRUE, table |-> table]
  ELSE LET r == InsertOrReplace(table, Head(rows))
       IN IF r.ok THEN ExecuteMany(r.table, Tail(rows)) ELSE r

RowsOf(table, name) == SelectSeq(table, LAMBDA r : r.resource = name)

Keys(table) == {<<r.resource, r.obj_id>> : r \in Range(table)}

\* ------------------------------------------------------------ the exports
\* the text of the table and of the index as sqlite_master keeps them
CreateTableSql ==
  << "CREATE", SP, "TABLE objects (", NL,
     SP, SP, "resource TEXT NOT NULL,", NL,
     SP, SP, "obj_id   INTEGER NOT NULL,", NL,
     SP, SP, "updated  TEXT NOT NULL,", NL,
     SP, SP, "payload  TEXT NOT NULL,", NL,
     SP, SP, "PRIMARY KEY (resource, obj_id)", NL,
     ")" >>

CreateIndexSql ==
  << "CREATE", SP, "INDEX objects_resource_updated_idx", NL,
     SP, SP, "ON objects (resource, updated DESC)" >>

\* str.replace("'", "''")
RECURSIVE DoubleQuotes(_)
DoubleQuotes(s) ==
  IF s = << >> THEN << >>
  ELSE (IF Head(s) = QUOTE THEN <<QUOTE, QUOTE>> ELSE <<Head(s)>>)
       \o DoubleQuotes(Tail(s))

\* SQLite's quote() of a text value, as iterdump uses it
SqlQuote(s) == <<QUOTE>> \o DoubleQuotes(s) \o <<QUOTE>>

\* the INSERT statement iterdump yields for one row
DumpInsert(row) ==
  <<"INSERT", SP, "INTO \"objects\" VALUES(">>
  \o SqlQuote(<<row.resource>>) \o <<",", ToString(row.obj_id.v), ",">>
  \o SqlQuote(row.updated.v) \o <<",">> \o SqlQuote(row.payload) \o <<")", ";">>

\* the statements conn.iterdump() yields, rows in rowid order
IterDump(table) ==
  << <<"BEGIN TRANSACTION", ";">>, CreateTableSql \o <<";">> >>
  \o [n \in 1..Len(table) |-> DumpInsert(table[n])]
  \o << CreateIndexSql \o <<";">>, <<"COMMIT", ";">> >>

\* for line in conn.iterdump(): f.write(f"{line}\n")
WriteLines(stmts) == Concat([n \in 1..Len(stmts) |-> stmts[n] \o <<NL>>])

\* f"DELETE FROM objects WHERE resource = '{res}';\n"
ChunkDelete(name) ==
  <<"DELETE", SP, "FROM objects WHERE resource = ", QUOTE, name, QUOTE, ";", NL>>

\* the line with the payload written as it is stored
ChunkInsertRaw(name, row) ==
  <<"INSERT", SP,
    "OR REPLACE INTO objects (resource,obj_id,updated,payload) VALUES (",
    QUOTE, name, QUOTE, ",", ToString(row.obj_id.v), ",", QUOTE>>
  \o row.updated.v \o <<QUOTE, ",", QUOTE>> \o row.payload
  \o <<QUOTE, ")", ";", NL>>

\* the INSERT OR REPLACE line of one row: only the payload is escaped
ChunkInsert(name, row) ==
  LET payload_escaped == DoubleQuotes(row.payload)
  IN <<"INSERT", SP,
       "OR REPLACE INTO objects (resource,obj_id,updated,payload) VALUES (",
       QUOTE, name, QUOTE, ",", ToString(row.obj_id.v), ",", QUOTE>>
     \o row.updated.v \o <<QUOTE, ",", QUOTE>> \o payload_escaped
     \o <<QUOTE, ")", ";", NL>>

\* the chunk file of one resource, its rows in the order the SELECT gave them
ChunkFile(name, rows) ==
  ChunkDelete(name) \o Concat([n \in 1..Len(rows) |-> ChunkInsert(name, rows[n])])

\* the orders in which a SELECT without ORDER BY may return the rows
ScanOrders(rows) ==
  {s \in [1..Len(rows) -> Range(rows)] : \A r \in Range(rows) : \E n \in 1..Len(rows) : s[n] = r}

\* the lines of a text file, each with its line end (the last line has none
\* when the file does not end with one)
ReadLines(stream) ==
  LET n == Len(stream)
      ends == {e \in 1..n : stream[e] = NL \/ e = n}
      first(e) == IF \E x \in ends : x < e
                    THEN 1 + CHOOSE x \in ends : x < e /\ \A y \in ends : y < e => y <= x
                    ELSE 1
      nth(k) == CHOOSE e \in ends : Cardinality({x \in ends : x <= e}) = k
  IN [k \in 1..Cardinality(ends) |-> SubSeq(stream, first(nth(k)), nth(k))]

Whitespace == {SP, NL}

RECURSIVE LStrip(_)
LStrip(s) ==
  IF s # << >> /\ Head(s) \in Whitespace THEN LStrip(Tail(s)) ELSE s

RECURSIVE RStrip(_)
RStrip(s) ==
  IF s # << >> /\ s[Len(s)] \in Whitespace THEN RStrip(SubSeq(s, 1, Len(s) - 1)) ELSE s

\* str.strip()
Strip(s) == RStrip(LStrip(s))

skip_prefixes == {"BEGIN TRANSACTION", "COMMIT", "PRAGMA"}

\* str.startswith(prefixes); every prefix is one token
StartsWith(s, prefixes) == s # << >> /\ Head(s) \in prefixes

\* the loop without the test for a blank line
RECURSIVE FilterLinesKeepBlank(_)
FilterLinesKeepBlank(lines) ==
  IF lines = << >> THEN << >>
  ELSE LET line == Head(lines)
           stripped == Strip(line)
       IN IF StartsWith(stripped, skip_prefixes)
            THEN FilterLinesKeepBlank(Tail(lines))
            ELSE line \o FilterLinesKeepBlank(Tail(lines))

\* the loop that copies the full dump to the filtered dump
RECURSIVE FilterLines(_)
FilterLines(lines) ==
  IF lines = << >> THEN << >>
  ELSE LET line == Head(lines)
           stripped == Strip(line)
       IN IF stripped = << >> \/ StartsWith(stripped, skip_prefixes)
            THEN FilterLines(Tail(lines))
            ELSE line \o FilterLines(Tail(lines))

SchemaFile ==
  << NL, "CREATE", SP, "TABLE IF NOT EXISTS objects (", NL,
     SP, SP, "resource TEXT NOT NULL,", NL,
     SP, SP, "obj_id   INTEGER NOT NULL,", NL,
     SP, SP, "updated  TEXT NOT NULL,", NL,
     SP, SP, "payload  TEXT NOT NULL,", NL,
     SP, SP, "PRIMARY KEY (resource, obj_id)", NL,
     ")", ";", NL,
     "CREATE", SP, "INDEX IF NOT EXISTS objects_resource_updated_idx", NL,
     SP, SP, "ON objects (resource, updated DESC)", ";", NL >>

\* ---------------------------------------------------------------- actions
NoFiles == [a \in Artifacts |-> << >>]

Init ==
  /\ pc = "idle"
  /\ status = "none"
  /\ res = 1
  /\ data = << >>
  /\ fetched = << >>
  /\ tx = << >>
  /\ db = << >>
  /\ files = NoFiles
  /\ written = {}
  /\ dropped = FALSE

\* a start that keeps the table of the run before
StartRunNoDrop ==
  /\ status # "running"
  /\ pc' = "import"
  /\ status' = "running"
  /\ res' = 1
  /\ data' = << >>
  /\ fetched' = << >>
  /\ dropped' = FALSE
  /\ db' = db
  /\ tx' = db
  /\ files' = NoFiles
  /\ written' = {}

\* the script is started; the table is dropped and created again
StartRun ==
  /\ status # "running"
  /\ pc' = "import"
  /\ status' = "running"
  /\ res' = 1
  /\ data' = << >>
  /\ fetched' = << >>
  /\ dropped' = (db # << >>)
  /\ db' = << >>
  /\ tx' = << >>
  /\ files' = NoFiles
  /\ written' = {}

\* the error is caught and the loop left
FetchFailBreak ==
  /\ pc = "import" /\ status = "running"
  /\ fetched' = Append(fetched, RESOURCES[res])
  /\ pc' = "commit"
  /\ UNCHANGED <<status, res, data, tx, db, files, written, dropped>>

\* urlopen or json.load raises
FetchFail ==
  /\ pc = "import" /\ status = "running"
  /\ fetched' = Append(fetched, RESOURCES[res])
  /\ status' = "fetch_error"
  /\ UNCHANGED <<pc, res, data, tx, db, files, written, dropped>>

\* an iteration that commits what it stored
FetchAndStoreAutocommit ==
  /\ pc = "import" /\ status = "running"
  /\ \E d \in DataFor(res) :
       LET r == ExecuteMany(tx, Rows(RESOURCES[res], d))
       IN /\ data' = d
          /\ fetched' = Append(fetched, RESOURCES[res])
          /\ tx' = r.table
          /\ db' = r.table
          /\ IF r.ok
               THEN /\ status' = status
                    /\ IF res = Len(RESOURCES)
                         THEN pc' = "commit" /\ res' = res
                         ELSE pc' = pc /\ res' = res + 1
               ELSE /\ status' = "store_error"
                    /\ UNCHANGED <<pc, res>>
  /\ UNCHANGED <<files, written, dropped>>

\* one iteration of the import loop
FetchAndStore ==
  /\ pc = "import" /\ status = "running"
  /\ \E d \in DataFor(res) :
       LET r == ExecuteMany(tx, Rows(RESOURCES[res], d))
       IN /\ data' = d
          /\ fetched' = Append(fetched, RESOURCES[res])
          /\ tx' = r.table
          /\ IF r.ok
               THEN /\ status' = status
                    /\ IF res = Len(RESOURCES)
                         THEN pc' = "commit" /\ res' = res
                         ELSE pc' = pc /\ res' = res + 1
               ELSE /\ status' = "store_error"
                    /\ UNCHANGED <<pc, res>>
  /\ UNCHANGED <<db, files, written, dropped>>

\* conn.commit()
Commit ==
  /\ pc = "commit" /\ status = "running"
  /\ db' = tx
  /\ pc' = "dump"
  /\ UNCHANGED <<status, res, data, fetched, tx, files, written, dropped>>

\* the full dump is written and the connection closed
WriteFullDump ==
  /\ pc = "dump" /\ status = "running"
  /\ files' = [files EXCEPT ![SQL_PATH] = WriteLines(IterDump(tx))]
  /\ written' = written \cup {SQL_PATH}
  /\ pc' = "schema"
  /\ UNCHANGED <<status, res, data, fetched, tx, db, dropped>>

\* the schema file is written
WriteSchema ==
  /\ pc = "schema" /\ status = "running"
  /\ files' = [files EXCEPT ![SCHEMA_PATH] = SchemaFile]
  /\ written' = written \cup {SCHEMA_PATH}
  /\ pc' = "chunks"
  /\ res' = 1
  /\ UNCHANGED <<status, data, fetched, tx, db, dropped>>

\* one iteration of the chunk loop
WriteChunk ==
  /\ pc = "chunks" /\ status = "running"
  /\ \E rows \in ScanOrders(RowsOf(db, RESOURCES[res])) :
       files' = [files EXCEPT ![ChunkPath(RESOURCES[res])] = ChunkFile(RESOURCES[res], rows)]
  /\ written' = written \cup {ChunkPath(RESOURCES[res])}
  /\ IF res = Len(RESOURCES)
       THEN pc' = "filter" /\ res' = res
       ELSE pc' = pc /\ res' = res + 1
  /\ UNCHANGED <<status, data, fetched, tx, db, dropped>>

\* the filtered dump is written and main returns 0
FilterDump ==
  /\ pc = "filter" /\ status = "running"
  /\ files' = [files EXCEPT ![D1_SQL_PATH] = FilterLines(ReadLines(files[SQL_PATH]))]
  /\ written' = written \cup {D1_SQL_PATH}
  /\ pc' = "done"
  /\ status' = "exit0"
  /\ UNCHANGED <<res, data, fetched, tx, db, dropped>>

\* a database or file error after the import loop
ExportFail ==
  /\ pc \in {"commit", "dump", "schema", "chunks", "filter"} /\ status = "running"
  /\ status' = "export_error"
  /\ UNCHANGED <<pc, res, data, fetched, tx, db, files, written, dropped>>

Next ==
  \/ StartRun
  \/ FetchFail
  \/ FetchAndStore
  \/ Commit
  \/ WriteFullDump
  \/ WriteSchema
  \/ WriteChunk
  \/ FilterDump
  \/ ExportFail

Spec == Init /\ [][Next]_vars

\* ------------------------------------------------------------- properties
\* the run failed in the import loop
ImportFailed == status \in {"fetch_error", "store_error"}

\* the latest iteration of the import loop stored its data array
StoredOK ==
  /\ status \notin {"none", "store_error"}
  /\ pc = "import" => res > 1

\* the resource that iteration was about
LastName == RESOURCES[IF pc = "import" /\ res > 1 THEN res - 1 ELSE Len(RESOURCES)]

IndexOf(name) == CHOOSE n \in 1..Len(RESOURCES) : RESOURCES[n] = name

UniqueKeys(table) ==
  \A a, b \in 1..Len(table) : SameKey(table[a], table[b]) => a = b

\* C1: the objects table, as the connection sees it and as it is persisted,
\* never holds two rows with the same (resource, obj_id)
C1_OneRowPerKey == UniqueKeys(tx) /\ UniqueKeys(db)

\* a second run has stored an array whose two elements share an id but differ
C1_Witness ==
  /\ StoredOK /\ pc = "import" /\ dropped
  /\ Len(data) = 2 /\ data[1].id = data[2].id /\ data[1] # data[2]
  /\ Len(RowsOf(tx, LastName)) = 1
  /\ Len(tx) = 2

\* the last element of the array that carries the id
LastWithId(id) ==
  data[CHOOSE n \in 1..Len(data) :
         data[n].id = id /\ \A m \in 1..Len(data) : data[m].id = id => m <= n]

\* C2: after a data array was stored, the rows of its resource are one per
\* distinct id of the array, each with the updated value and the payload of
\* the last element with that id, updated being "" when that element has no
\* updated key
C2_RowsAreCollapsedArray ==
  StoredOK =>
    LET rows == RowsOf(tx, LastName)
        ids == {data[n].id : n \in 1..Len(data)}
    IN /\ {r.obj_id : r \in Range(rows)} = ids
       /\ Len(rows) = Cardinality(ids)
       /\ \A r \in Range(rows) :
            LET obj == LastWithId(r.obj_id)
            IN /\ r.payload = Dumps(obj)
               /\ r.updated = (IF obj.updated = Missing THEN TextVal(<< >>) ELSE obj.updated)

\* an array of two elements with the same id was stored, the first with an
\* updated string and the last without the key
C2_Witness ==
  /\ StoredOK /\ pc = "import"
  /\ Len(data) = 2 /\ data[1].id = data[2].id
  /\ data[1].updated \notin {Missing, None} /\ data[2].updated = Missing
  /\ \E r \in Range(tx) :
       r.resource = LastName /\ r.obj_id = data[2].id /\ r.updated = TextVal(<< >>)

\* C3: storing the same data array once more succeeds and leaves the same set
\* of rows, and so does storing it into the empty table a second run starts with
C3_UpsertIdempotent ==
  StoredOK =>
    LET rows == Rows(LastName, data)
        again == ExecuteMany(tx, rows)
        rerun == ExecuteMany(<< >>, rows)
    IN /\ again.ok /\ Range(again.table) = Range(tx)
       /\ rerun.ok /\ Range(rerun.table) = Range(RowsOf(tx, LastName))

\* the second resource's array, not empty, was stored on top of the first's
C3_Witness ==
  /\ StoredOK /\ pc = "import" /\ res = 3
  /\ data # << >>
  /\ RowsOf(tx, RESOURCES[1]) # << >>

\* the tokens between the statements of a chunk file
DeletePrefix == <<"DELETE", SP, "FROM objects WHERE resource = ">>
InsertPrefix ==
  <<"INSERT", SP, "OR REPLACE INTO objects (resource,obj_id,updated,payload) VALUES (">>

Expect(s, toks) == Len(s) >= Len(toks) /\ SubSeq(s, 1, Len(toks)) = toks

Rest(s, n) == SubSeq(s, n + 1, Len(s))

IsNumber(tok) == \E n \in 0..9 : tok = ToString(n)

\* an SQL string literal: '' inside it is one quote, a lone ' ends it
RECURSIVE ScanLiteral(_, _)
ScanLiteral(s, acc) ==
  IF s = << >> THEN [ok |-> FALSE, v |-> acc, rest |-> << >>]
  ELSE IF Head(s) = QUOTE
    THEN IF Len(s) >= 2 /\ s[2] = QUOTE
           THEN ScanLiteral(Rest(s, 2), Append(acc, QUOTE))
           ELSE [ok |-> TRUE, v |-> acc, rest |-> Tail(s)]
    ELSE ScanLiteral(Tail(s), Append(acc, Head(s)))

ReadLiteral(s) ==
  IF s # << >> /\ Head(s) = QUOTE
    THEN ScanLiteral(Tail(s), << >>)
    ELSE [ok |-> FALSE, v |-> << >>, rest |-> << >>]

SyntaxError == [ok |-> FALSE, rows |-> {}]

\* the rows left by the statements of a file run in order on the given rows;
\* a row here is the four values of its statement's literals
RECURSIVE Replay(_, _)
Replay(s, rows) ==
  IF s = << >> THEN [ok |-> TRUE, rows |-> rows]
  ELSE IF Head(s) \in Whitespace THEN Replay(Tail(s), rows)
  ELSE IF Expect(s, DeletePrefix)
    THEN LET a == ReadLiteral(Rest(s, 3))
         IN IF a.ok /\ Expect(a.rest, <<";">>)
              THEN Replay(Rest(a.rest, 1), {r \in rows : r.resource # a.v})
              ELSE SyntaxError
  ELSE IF Expect(s, InsertPrefix)
    THEN LET a == ReadLiteral(Rest(s, 3))
         IN IF ~(a.ok /\ Len(a.rest) >= 3 /\ a.rest[1] = ","
                 /\ IsNumber(a.rest[2]) /\ a.rest[3] = ",")
              THEN SyntaxError
              ELSE LET b == ReadLiteral(Rest(a.rest, 3))
                   IN IF ~(b.ok /\ Expect(b.rest, <<",">>))
                        THEN SyntaxError
                        ELSE LET c == ReadLiteral(Rest(b.rest, 1))
                             IN IF ~(c.ok /\ Expect(c.rest, <<")", ";">>))
                                  THEN SyntaxError
                                  ELSE LET row == [resource |-> a.v, obj_id |-> a.rest[2],
                                                   updated |-> b.v, payload |-> c.v]
                                       IN Replay(Rest(c.rest, 2),
                                                 {r \in rows : ~SameKey(r, row)} \cup {row})
  ELSE SyntaxError

\* the four values of a stored row as literals hold them
AsLiterals(r) ==
  [resource |-> <<r.resource>>, obj_id |-> ToString(r.obj_id.v),
   updated |-> r.updated.v, payload |-> r.payload]

\* C4: the statements of a written chunk file, run in order on an empty table,
\* leave exactly the rows the store holds for the resource
C4_ChunkRoundTrip ==
  \A name \in ResourceNames :
    ChunkPath(name) \in written =>
      Replay(files[ChunkPath(name)], {})
        = [ok |-> TRUE, rows |-> {AsLiterals(r) : r \in Range(RowsOf(db, name))}]

\* what is still enabled of the run
RunCanStep ==
  ENABLED (FetchFail \/ FetchAndStore \/ Commit \/ WriteFullDump \/ WriteSchema
           \/ WriteChunk \/ FilterDump \/ ExportFail)

\* C5: a run that fails in the import loop at the k-th resource has requested
\* the first k resources once each and nothing else, takes no further step and
\* has written no artifact; a run ends with exit code 0 only after all twelve
\* resources were requested and stored and every artifact was written
C5_FailureAbortsRun ==
  /\ ImportFailed =>
       /\ pc = "import"
       /\ fetched = SubSeq(RESOURCES, 1, res)
       /\ written = {} /\ files = NoFiles
       /\ ~RunCanStep
  /\ status = "exit0" =>
       /\ pc = "done"
       /\ fetched = RESOURCES
       /\ written = Artifacts
       /\ db = tx
       /\ ~RunCanStep

\* the fetch of the third resource failed after two were stored
C5_Witness ==
  /\ status = "fetch_error" /\ res = 3
  /\ Len(tx) = 2

\* C6 as stated: after a run failed at the k-th resource, the rows stored for
\* the resources before it are in the persisted table
C6_RowsPersistAfterFailure ==
  ImportFailed =>
    \A r \in Range(tx) : IndexOf(r.resource) < res => r \in Range(db)

\* C6 amended: after a run failed in the import loop the persisted table is
\* empty; the rows stored before the failure were in the open transaction only
C6_FailureLeavesTableEmpty ==
  ImportFailed => db = << >>

\* the run failed at the second resource after a row of the first was stored
C6_Witness ==
  /\ ImportFailed /\ res = 2
  /\ RowsOf(tx, RESOURCES[1]) # << >>
  /\ db = << >>

Blank(line) == Strip(line) = << >>

Skipped(line) == ~Blank(line) /\ Head(Strip(line)) \in skip_prefixes

IsStatementLine(line) == line # << >> /\ Head(line) \in {"INSERT", "CREATE"}

\* C8: the lines of the filtered dump are the lines of the full dump that are
\* not blank and do not start with a skipped prefix, in their order; none of
\* them is blank or starts with such a prefix, and every INSERT and CREATE
\* line of the full dump is among them
C8_FilteredDump ==
  D1_SQL_PATH \in written =>
    LET src == ReadLines(files[SQL_PATH])
        dst == ReadLines(files[D1_SQL_PATH])
    IN /\ dst = SelectSeq(src, LAMBDA line : ~Blank(line) /\ ~Skipped(line))
       /\ \A line \in Range(dst) : ~Blank(line) /\ ~Skipped(line)
       /\ \A line \in Range(src) : IsStatementLine(line) => line \in Range(dst)

\* the full dump holds a row whose updated text spans lines, one of them blank
\* and one starting with COMMIT
C8_Witness ==
  /\ D1_SQL_PATH \in written
  /\ LET src == ReadLines(files[SQL_PATH])
     IN /\ \E line \in Range(src) : Blank(line)
        /\ \E line \in Range(src) : Skipped(line) /\ QUOTE \in Range(line)
        /\ \E line \in Range(src) : Head(line) = "INSERT"

CountTok(s, tok) == Cardinality({n \in 1..Len(s) : s[n] = tok})

\* the statement a chunk file is to hold for a row
ExpectedInsert(name, r) ==
  InsertPrefix
  \o <<QUOTE, name, QUOTE, ",", ToString(r.obj_id.v), ",", QUOTE>> \o r.updated.v
  \o <<QUOTE, ",", QUOTE>>
  \o Concat([n \in 1..Len(r.payload) |->
               IF r.payload[n] = QUOTE THEN <<QUOTE, QUOTE>> ELSE <<r.payload[n]>>])
  \o <<QUOTE, ")", ";", NL>>

\* C9: a written chunk file is the DELETE of its resource followed by one
\* INSERT OR REPLACE for each row the store holds for that resource and for no
\* other row, the payload written with every single quote doubled
C9_ChunkFile ==
  \A name \in ResourceNames :
    ChunkPath(name) \in written =>
      LET rows == RowsOf(db, name)
          file == files[ChunkPath(name)]
      IN /\ Expect(file, DeletePrefix \o <<QUOTE, name, QUOTE, ";", NL>>)
         /\ CountTok(file, "DELETE") = 1
         /\ CountTok(file, "INSERT") = Len(rows)
         /\ \E order \in ScanOrders(rows) :
              file = DeletePrefix \o <<QUOTE, name, QUOTE, ";", NL>>
                     \o Concat([n \in 1..Len(order) |-> ExpectedInsert(name, order[n])])

\* the chunk files of a resource with a quote in a payload and of a resource
\* without rows are written while another resource has rows too
C9_Witness ==
  /\ ChunkPath(RESOURCES[1]) \in written
  /\ ChunkPath(RESOURCES[3]) \in written
  /\ \E r \in Range(RowsOf(db, RESOURCES[1])) : QUOTE \in Range(r.payload)
  /\ RowsOf(db, RESOURCES[2]) # << >>
  /\ RowsOf(db, RESOURCES[3]) = << >>

BadElement(obj) == obj.id = Missing \/ obj.updated = None

\* C10: no row of the table has a null obj_id or a null updated; an array
\* with an element without id, or with a null updated, makes the store fail;
\* a stored element without the updated key has the row updated ""
C10_NoNullColumns ==
  /\ \A r \in Range(tx) \cup Range(db) : r.obj_id # None /\ r.updated # None
  /\ (\E n \in 1..Len(data) : BadElement(data[n])) => status = "store_error" /\ ~RunCanStep
  /\ StoredOK =>
       \A r \in Range(RowsOf(tx, LastName)) :
         LastWithId(r.obj_id).updated = Missing => r.updated = TextVal(<< >>)

\* the first element, without updated, was stored with updated "", the second,
\* without id, made the store fail
C10_Witness ==
  /\ status = "store_error"
  /\ Len(data) = 2
  /\ data[1] = [id |-> IntVal(1), updated |-> Missing]
  /\ data[2].id = Missing
  /\ tx # << >>
  /\ tx[Len(tx)].obj_id = IntVal(1) /\ tx[Len(tx)].updated = TextVal(<< >>)

====
